---- MODULE Spec2Model ----
(***************************************************************************)
(* Model of GoogleAdsOptimizer (src/google_ads_optimizer_tool.py): one     *)
(* invocation of _execute, stepped statement by statement, with the        *)
(* external collaborators (tool configuration, the clicks database, the    *)
(* Google Ads search service) answering from small sets of responses.      *)
(*                                                                         *)
(* Units.  Money amounts (row.cost, cost, total_sales, max_cpa) are whole  *)
(* currency units, so float addition is exact.  Values the code rounds to  *)
(* two decimals (average_cpc, avg_cpa) are kept in hundredths, conv_rate   *)
(* (rounded to four decimals) in ten-thousandths.  Python's None is the    *)
(* empty sequence <<>> and a present value v is <<v>>.                     *)
(***************************************************************************)
EXTENDS Integers, Sequences, FiniteSets, TLC

\* ------------------------------------------------------------------ bounds
MaxRecords == 3     \* longest sales_data the database returns
MaxCpa == 2         \* largest max_cpa argument

\* -------------------------------------------------------------- utilities
None == <<>>

Some(v) == <<v>>

\* dict[k] = v, creating the key when absent
Put(d, k, v) == [x \in (DOMAIN d) \cup {k} |-> IF x = k THEN v ELSE d[x]]

EmptyDict == [x \in {} |-> 0]

\* round(num / den, digits) with scale = 10^digits, as an integer count of
\* 1/scale units.  Python rounds the float to the nearest, ties to even.
\* For den < 25 a tie at two decimals is a multiple of 1/8, which a float
\* holds exactly, and no quotient is a tie at four decimals, so the rule
\* applies to the exact quotient.
RoundDiv(num, den, scale) ==
    LET q == (num * scale) \div den
        r == (num * scale) % den
    IN  IF 2 * r < den THEN q
        ELSE IF 2 * r > den THEN q + 1
        ELSE IF q % 2 = 0 THEN q ELSE q + 1

\* ------------------------------------------------ tool configuration keys
GoogleKeys == {"GOOGLE_ADS_DEVELOPER_TOKEN", "GOOGLE_ADS_CLIENT_ID",
               "GOOGLE_ADS_CLIENT_SECRET", "GOOGLE_ADS_REFRESH_TOKEN",
               "GOOGLE_ADS_LOGIN_CUSTOMER_ID"}

\* the configurations a run may start with: everything set, or one or two
\* of the checked keys empty
Configs == {c \in SUBSET GoogleKeys : Cardinality(GoogleKeys \ c) <= 2}

MissingKeysMut(config) == {}

\* missing_keys of _initialize_google_ads_client ("token_uri" and
\* "use_proto_plus" are literals and never missing)
MissingKeys(config) == GoogleKeys \ config

\* ------------------------------------------------------- traffic records
\* row.kuda is the landing URL; only its query string matters, kept as the
\* sequence of its name=value pairs in URL order.
Q(n, v) == [name |-> n, value |-> v]

UrlGclidA == <<Q("gclid", "A")>>
UrlGclidB == <<Q("utm", "x"), Q("gclid", "B")>>
UrlRepeated == <<Q("gclid", "A"), Q("gclid", "B")>>
UrlBlankGclid == <<Q("gclid", ""), Q("gbraid", "A")>>
UrlGbraidB == <<Q("gbraid", "B")>>
UrlNoId == <<>>

Row(url, cost, conv) == [kuda |-> url, cost |-> cost, conv |-> conv]

\* the rows the query of _fetch_sales_data may return: its WHERE clause
\* keeps rows with cost > 0 whose kuda contains the text "gclid"
Rows == { Row(UrlGclidA, Some(1), "registr"),
          Row(UrlGclidA, Some(2), "none"),
          Row(UrlGclidB, Some(1), "transfer"),
          Row(UrlRepeated, Some(1), "none"),
          Row(UrlBlankGclid, Some(2), "registr") }

\* the rows _calculate_sales_per_keyword may be called with: any URL, and
\* a cost that may be absent or zero
AnyRows == Rows \cup { Row(UrlNoId, None, "none"),
                       Row(UrlGbraidB, Some(0), "transfer") }

RECURSIVE SeqsUpTo(_, _)
SeqsUpTo(S, n) ==
    IF n = 0 THEN {<<>>}
    ELSE LET shorter == SeqsUpTo(S, n - 1)
         IN  shorter \cup {Append(s, x) : s \in {t \in shorter : Len(t) = n - 1}, x \in S}

SalesDataSets == SeqsUpTo(Rows, MaxRecords)

AnySalesData == SeqsUpTo(AnyRows, MaxRecords)

\* the identity mappings _calculate_sales_per_keyword may be called with
GclidMaps ==
    UNION {[ids -> {"kw1", "kw2", "Unmapped (A)"}] : ids \in SUBSET {"A", "B"}}

\* parse_qs(query)[name]: the non-blank values of the parameter, in order
\* (keep_blank_values is False, so "gclid=" contributes nothing)
RECURSIVE ParseQs(_, _)
ParseQs(query, name) ==
    IF query = <<>> THEN <<>>
    ELSE LET p == Head(query)
             rest == ParseQs(Tail(query), name)
         IN  IF p.name = name /\ p.value # "" THEN <<p.value>> \o rest ELSE rest

\* query_params.get("gclid", [None])[0]
ExtractGclid(kuda) ==
    LET vs == ParseQs(kuda, "gclid")
    IN  IF vs = <<>> THEN None ELSE Some(vs[1])

UnmappedLabel(gclid) == "Unmapped (" \o gclid \o ")"

\* gclid_map.get(gclid, f"Unmapped ({gclid})") if gclid else "unknown"
KeywordOf(row, gclid_map) ==
    LET g == ExtractGclid(row.kuda)
    IN  IF g = None THEN "unknown"
        ELSE IF g[1] \in DOMAIN gclid_map THEN gclid_map[g[1]]
        ELSE UnmappedLabel(g[1])

\* float(row.cost) if row.cost else 0.0
RowCost(row) == IF row.cost = None THEN 0 ELSE row.cost[1]

\* row.conv in ["registr", "transfer"]
IsConversion(conv) == conv \in {"registr", "transfer"}

\* the defaultdict factory, and the literal _execute inserts
ZeroStats == [total_sales |-> 0, conversion_count |-> 0, clicks |-> 0,
              average_cpc |-> 0, current_bid |-> 0, cost |-> 0]

FoldRowMut(keyword_data, row, gclid_map) ==
    LET keyword == KeywordOf(row, gclid_map)
        old == IF keyword \in DOMAIN keyword_data THEN keyword_data[keyword] ELSE ZeroStats
        conv == IsConversion(row.conv)
    IN  Put(keyword_data, keyword,
            [old EXCEPT !.clicks = @ + 1,
                        !.cost = IF conv THEN @ ELSE @ + RowCost(row),
                        !.conversion_count = IF conv THEN @ + 1 ELSE @,
                        !.total_sales = IF conv THEN @ + RowCost(row) ELSE @])

\* one iteration of the loop over sales_data
FoldRow(keyword_data, row, gclid_map) ==
    LET keyword == KeywordOf(row, gclid_map)
        old == IF keyword \in DOMAIN keyword_data THEN keyword_data[keyword] ELSE ZeroStats
        conv == IsConversion(row.conv)
    IN  Put(keyword_data, keyword,
            [old EXCEPT !.clicks = @ + 1,
                        !.cost = @ + RowCost(row),
                        !.conversion_count = IF conv THEN @ + 1 ELSE @,
                        !.total_sales = IF conv THEN @ + RowCost(row) ELSE @])

RECURSIVE FoldRows(_, _, _)
FoldRows(keyword_data, rows, gclid_map) ==
    IF rows = <<>> THEN keyword_data
    ELSE FoldRows(FoldRow(keyword_data, Head(rows), gclid_map), Tail(rows), gclid_map)

AverageCpcMut(cost, clicks) == IF clicks > 0 THEN (cost * 100) \div clicks ELSE 0

\* round(cost / clicks, 2) if clicks > 0 else 0.0, in hundredths
AverageCpc(cost, clicks) == IF clicks > 0 THEN RoundDiv(cost, clicks, 100) ELSE 0

\* _calculate_sales_per_keyword
CalculateSalesPerKeyword(sales_data, gclid_map) ==
    LET folded == FoldRows(EmptyDict, sales_data, gclid_map)
    IN  [kw \in DOMAIN folded |->
            [folded[kw] EXCEPT !.average_cpc = AverageCpc(folded[kw].cost, folded[kw].clicks)]]

\* ------------------------------------------- Google Ads search responses
\* A search_stream call either streams rows or raises GoogleAdsException.
\* click_view.ad_group_ad is a resource name
\* "customers/<c>/<collection>/<ad_group_id>~<ad_id>", kept by its parts;
\* the empty string is Res("", "", "")
Res(collection, ad_group_id, ad_id) ==
    [collection |-> collection, ad_group_id |-> ad_group_id, ad_id |-> ad_id]

NoRes == Res("", "", "")

ClickRow(gclid, ad_group_ad) == [gclid |-> gclid, ad_group_ad |-> ad_group_ad]

\* what the click_view query may stream
ClickViews == { <<>>,
                <<ClickRow("A", Res("adGroupAds", "10", "7"))>>,
                <<ClickRow("A", Res("adGroupAds", "10", "7")),
                  ClickRow("B", Res("adGroupAds", "20", "8"))>>,
                <<ClickRow("A", Res("adGroupAds", "10", "7")),
                  ClickRow("A", Res("adGroupAds", "20", "8"))>>,
                <<ClickRow("B", Res("adGroups", "10", "")),
                  ClickRow("", Res("adGroupAds", "10", "7")),
                  ClickRow("A", NoRes)>> }

\* re.search(r'adGroupAds/(?P<ad_group_id>\d+)~(?P<ad_id>\d+)', ad_group_ad)
\* guarded by "if gclid and ad_group_ad": the ad_group_id, or None
MatchAdGroup(row) ==
    IF /\ row.gclid # ""
       /\ row.ad_group_ad # NoRes
       /\ row.ad_group_ad.collection = "adGroupAds"
       /\ row.ad_group_ad.ad_group_id # ""
       /\ row.ad_group_ad.ad_id # ""
    THEN Some(row.ad_group_ad.ad_group_id)
    ELSE None

\* the first loop: gclid_to_ad_group_ad (a later row overwrites an earlier)
RECURSIVE GclidToAdGroup(_, _)
GclidToAdGroup(acc, rows) ==
    IF rows = <<>> THEN acc
    ELSE LET m == MatchAdGroup(Head(rows))
         IN  GclidToAdGroup(IF m = None THEN acc ELSE Put(acc, Head(rows).gclid, m[1]),
                            Tail(rows))

\* ad_group_ad_ids: every ad group a row matched is added (line 84) and
\* none is removed, also when a later row overwrites the gclid's entry
AdGroupIds(rows) ==
    {MatchAdGroup(rows[i])[1] : i \in {j \in 1..Len(rows) : MatchAdGroup(rows[j]) # None}}

\* ad_group_criterion rows: the ad group's resource name as its path
\* segments, and the keyword text
KwRow(ad_group, text) == [ad_group |-> ad_group, text |-> text]

\* the keyword criteria the account may hold, in the order the API streams
KeywordDirectories == { <<>>,
                        <<KwRow(<<"customers", "1", "adGroups", "10">>, "kw1"),
                          KwRow(<<"customers", "1", "adGroups", "10">>, "kw2")>>,
                        <<KwRow(<<"customers", "1", "adGroups", "20">>, "kw2"),
                          KwRow(<<"customers", "1", "adGroups", "30">>, "kw3")>> }

\* row.ad_group_criterion.ad_group.split('/')[-1]
AdGroupOf(kwrow) == kwrow.ad_group[Len(kwrow.ad_group)]

\* the rows the second query selects: WHERE ad_group.id IN (ad_group_ad_ids)
SelectKeywordRows(directory, ad_group_ids) ==
    SelectSeq(directory, LAMBDA r : AdGroupOf(r) \in ad_group_ids)

\* ad_group_to_keywords[ad_group_id], in streaming order
KeywordsOfAdGroup(kwrows, ad_group_id) ==
    SelectSeq(kwrows, LAMBDA r : AdGroupOf(r) = ad_group_id)

\* the final loop: gclid_to_keyword
JoinKeywords(gclid_to_ad_group, kwrows) ==
    [g \in DOMAIN gclid_to_ad_group |->
        LET keywords == KeywordsOfAdGroup(kwrows, gclid_to_ad_group[g])
        IN  IF keywords # <<>> THEN keywords[1].text ELSE UnmappedLabel(g)]

\* what list_enabled_keywords may answer
EnabledKeywordSets == { {}, {"kw1"}, {"kw1", "kw3"} }

\* ------------------------------------------------------- decision engine
Strategies == {"ROAS", "CPA", "Manual", "Other"}

Reason(text, args) == [text |-> text, args |-> args]

Choice(action, reason) == [action |-> action, reason |-> reason]

\* avg_cpa > max_cpa with avg_cpa = total_sales / conversion_count
CpaExceedsMut(stats, max_cpa) == stats.total_sales >= max_cpa * stats.conversion_count

CpaExceeds(stats, max_cpa) == stats.total_sales > max_cpa * stats.conversion_count

DecideMut(stats, strategy, max_cpa) ==
    IF stats.conversion_count = 0
    THEN Some(Choice("Pause or lower bid", Reason("No conversions", <<>>)))
    ELSE IF strategy = "ROAS" /\ stats.total_sales > 0
    THEN Some(Choice("Increase bid", Reason("High ROAS", <<>>)))
    ELSE None

\* the if/elif chain of _apply_optimization_strategy for one keyword: the
\* action and reason, or None where the code takes "continue".  The CPA
\* reason carries f"{avg_cpa:.2f}" (hundredths) and max_cpa.
Decide(stats, strategy, max_cpa) ==
    IF stats.clicks = 0
    THEN Some(Choice("Skip", Reason("No traffic", <<>>)))
    ELSE IF stats.conversion_count = 0
    THEN Some(Choice("Pause or lower bid", Reason("No conversions", <<>>)))
    ELSE IF strategy = "ROAS" /\ stats.total_sales > 0
    THEN Some(Choice("Increase bid", Reason("High ROAS", <<>>)))
    ELSE IF strategy = "CPA" /\ CpaExceeds(stats, max_cpa)
    THEN Some(Choice("Decrease bid",
                     Reason("Average CPA exceeds max CPA",
                            <<RoundDiv(stats.total_sales, stats.conversion_count, 100),
                              max_cpa>>)))
    ELSE IF strategy = "Manual"
    THEN Some(Choice("Review manually", Reason("Manual strategy selected", <<>>)))
    ELSE None

\* the entry written to suggested_changes[keyword]
Suggestion(stats, choice) ==
    [action |-> choice.action,
     avg_cpa |-> IF stats.conversion_count > 0
                 THEN Some(RoundDiv(stats.total_sales, stats.conversion_count, 100))
                 ELSE None,
     conv_rate |-> IF stats.clicks > 0
                   THEN RoundDiv(stats.conversion_count, stats.clicks, 10000)
                   ELSE 0,
     clicks |-> stats.clicks,
     conversion_count |-> stats.conversion_count,
     average_cpc |-> stats.average_cpc,
     current_bid |-> stats.current_bid,
     cost |-> stats.cost,
     reason |-> choice.reason]

\* _apply_optimization_strategy (min_conversion_rate is never read)
ApplyOptimizationStrategy(keyword_data, strategy, max_cpa) ==
    LET decided == {kw \in DOMAIN keyword_data :
                        Decide(keyword_data[kw], strategy, max_cpa) # None}
    IN  [kw \in decided |->
            Suggestion(keyword_data[kw], Decide(keyword_data[kw], strategy, max_cpa)[1])]

\* lines 226-235 of _execute: enabled keywords without traffic get zeros
AddEnabledKeywords(keyword_data, all_keywords) ==
    [kw \in (DOMAIN keyword_data) \cup all_keywords |->
        IF kw \in DOMAIN keyword_data THEN keyword_data[kw] ELSE ZeroStats]

\* ------------------------------------------------ the dry-run boundary
\* lines 259-263 of _execute: _apply_google_ads_changes is looked up only
\* in the else branch of "if TEST_MODE"
ChangeApplierInvoked(flag) == ~flag

\* ------------------------------------------------------------------ state
VARIABLES
    pc,                 \* the statement of _execute the run is at
    test_mode,          \* the module global TEST_MODE
    config,             \* the tool configuration keys that are set
    strategy,           \* argument optimization_strategy
    max_cpa,            \* argument max_cpa
    sales_data,         \* local of _execute
    gclid_map,          \* local of _execute
    keyword_data,       \* local of _execute
    suggested_changes,  \* optimization_result["suggested_changes"]
    report,             \* content of optimization_report.json, None if unwritten
    returned,           \* the value _execute returned, None while it has not
    raised,             \* the exception that left _execute, None if none
    stages              \* the stages of the run that have started

vars == <<pc, test_mode, config, strategy, max_cpa, sales_data, gclid_map,
          keyword_data, suggested_changes, report, returned, raised, stages>>

CampaignId == "c1"

\* optimization_result of _execute
OptimizationResult(changes) ==
    [campaign_id |-> CampaignId, strategy |-> strategy,
     suggested_changes |-> changes, conversion_report |-> 1]

Exception(where, error) == [where |-> where, error |-> error]

Init ==
    /\ pc = "initialize_client"
    /\ test_mode \in BOOLEAN
    /\ config \in Configs
    /\ strategy \in Strategies
    /\ max_cpa \in 0..MaxCpa
    /\ sales_data = <<>>
    /\ gclid_map = EmptyDict
    /\ keyword_data = EmptyDict
    /\ suggested_changes = EmptyDict
    /\ report = None
    /\ returned = None
    /\ raised = None
    /\ stages = {}

\* an exception leaves _execute: nothing in the class catches it
Raise(where, error) ==
    /\ pc' = "raised"
    /\ raised' = Some(Exception(where, error))

\* line 220: _initialize_google_ads_client
InitializeClient ==
    /\ pc = "initialize_client"
    /\ IF MissingKeys(config) # {}
       THEN Raise("_initialize_google_ads_client", "ValueError")
       ELSE pc' = "fetch_sales_data" /\ UNCHANGED raised
    /\ UNCHANGED <<test_mode, config, strategy, max_cpa, sales_data, gclid_map,
                   keyword_data, suggested_changes, report, returned, stages>>

\* line 221: _fetch_sales_data; the database answers or the query fails
FetchSalesData ==
    /\ pc = "fetch_sales_data"
    /\ stages' = stages \cup {"fetch_sales_data"}
    /\ \/ \E rows \in SalesDataSets :
            /\ sales_data' = rows
            /\ pc' = "fetch_pairs"
            /\ UNCHANGED raised
       \/ /\ Raise("_fetch_sales_data", "DatabaseError")
          /\ UNCHANGED sales_data
    /\ UNCHANGED <<test_mode, config, strategy, max_cpa, gclid_map, keyword_data,
                   suggested_changes, report, returned>>

\* line 222: _fetch_all_gclid_keyword_pairs; either search_stream call may
\* raise GoogleAdsException, and the second is issued even when no ad group
\* was found
FetchAllGclidKeywordPairs ==
    /\ pc = "fetch_pairs"
    /\ stages' = stages \cup {"fetch_pairs"}
    /\ \/ \E clicks \in ClickViews, directory \in KeywordDirectories :
            LET gclid_to_ad_group == GclidToAdGroup(EmptyDict, clicks)
                kwrows == SelectKeywordRows(directory, AdGroupIds(clicks))
            IN  /\ gclid_map' = JoinKeywords(gclid_to_ad_group, kwrows)
                /\ pc' = "calculate"
                /\ UNCHANGED raised
       \/ /\ Raise("_fetch_all_gclid_keyword_pairs", "GoogleAdsException")
          /\ UNCHANGED gclid_map
    /\ UNCHANGED <<test_mode, config, strategy, max_cpa, sales_data, keyword_data,
                   suggested_changes, report, returned>>

\* line 223: _calculate_sales_per_keyword
CalculateSales ==
    /\ pc = "calculate"
    /\ stages' = stages \cup {"calculate"}
    /\ keyword_data' = CalculateSalesPerKeyword(sales_data, gclid_map)
    /\ pc' = "fetch_keywords"
    /\ UNCHANGED <<test_mode, config, strategy, max_cpa, sales_data, gclid_map,
                   suggested_changes, report, returned, raised>>

\* lines 225-235: _fetch_all_keywords and the zero entries.  sales_data and
\* gclid_map are not read again and leave the state here.
FetchAllKeywords ==
    /\ pc = "fetch_keywords"
    /\ stages' = stages \cup {"fetch_keywords"}
    /\ sales_data' = <<>>
    /\ gclid_map' = EmptyDict
    /\ \/ \E all_keywords \in EnabledKeywordSets :
            /\ keyword_data' = AddEnabledKeywords(keyword_data, all_keywords)
            /\ pc' = "apply_strategy"
            /\ UNCHANGED raised
       \/ /\ Raise("_fetch_all_keywords", "GoogleAdsException")
          /\ UNCHANGED keyword_data
    /\ UNCHANGED <<test_mode, config, strategy, max_cpa, suggested_changes,
                   report, returned>>

\* lines 237-255: detailed_report is built and dropped; optimization_result
\* takes the decisions of _apply_optimization_strategy
ApplyStrategy ==
    /\ pc = "apply_strategy"
    /\ stages' = stages \cup {"apply_strategy"}
    /\ suggested_changes' = ApplyOptimizationStrategy(keyword_data, strategy, max_cpa)
    /\ pc' = "save_report"
    /\ UNCHANGED <<test_mode, config, strategy, max_cpa, sales_data, gclid_map,
                   keyword_data, report, returned, raised>>

\* line 257: _save_report_to_file
SaveReport ==
    /\ pc = "save_report"
    /\ stages' = stages \cup {"save_report"}
    /\ report' = Some(OptimizationResult(suggested_changes))
    /\ pc' = "test_mode_branch"
    /\ UNCHANGED <<test_mode, config, strategy, max_cpa, sales_data, gclid_map,
                   keyword_data, suggested_changes, returned, raised>>

\* lines 259-265: print and return in test mode; otherwise line 263 looks
\* up self._apply_google_ads_changes, which the class does not define, and
\* the AttributeError leaves _execute before the return
TestModeBranch ==
    /\ pc = "test_mode_branch"
    /\ IF ChangeApplierInvoked(test_mode)
       THEN /\ Raise("_execute", "AttributeError")
            /\ UNCHANGED returned
       ELSE /\ pc' = "done"
            /\ returned' = Some(OptimizationResult(suggested_changes))
            /\ UNCHANGED raised
    /\ UNCHANGED <<test_mode, config, strategy, max_cpa, sales_data, gclid_map,
                   keyword_data, suggested_changes, report, stages>>

Next ==
    \/ InitializeClient
    \/ FetchSalesData
    \/ FetchAllGclidKeywordPairs
    \/ CalculateSales
    \/ FetchAllKeywords
    \/ ApplyStrategy
    \/ SaveReport
    \/ TestModeBranch

Spec == Init /\ [][Next]_vars

\* _calculate_sales_per_keyword called on arbitrary records and mapping,
\* followed by the completion with the enabled keywords
InitAggregate ==
    /\ pc = "calculate"
    /\ test_mode = TRUE
    /\ config = GoogleKeys
    /\ strategy = "ROAS"
    /\ max_cpa = 0
    /\ sales_data \in AnySalesData
    /\ gclid_map \in GclidMaps
    /\ keyword_data = EmptyDict
    /\ suggested_changes = EmptyDict
    /\ report = None
    /\ returned = None
    /\ raised = None
    /\ stages = {"fetch_sales_data", "fetch_pairs"}

NextAggregate ==
    \/ CalculateSales
    \/ FetchAllKeywords

SpecAggregate == InitAggregate /\ [][NextAggregate]_vars

\* ------------------------------------------------------------ properties
Decided == "apply_strategy" \in stages

Aggregated == pc = "fetch_keywords"

\* C1: whatever the strategy and the threshold, a keyword with clicks = 0
\* gets the action "Skip", and a keyword with clicks > 0 and
\* conversion_count = 0 gets "Pause or lower bid"; neither gets an increase
\* or a decrease.
C1_ZeroTrafficPrecedence ==
    Decided =>
        \A kw \in DOMAIN keyword_data :
            LET st == keyword_data[kw]
            IN  /\ st.clicks = 0 =>
                    /\ kw \in DOMAIN suggested_changes
                    /\ suggested_changes[kw].action = "Skip"
                /\ (st.clicks > 0 /\ st.conversion_count = 0) =>
                    /\ kw \in DOMAIN suggested_changes
                    /\ suggested_changes[kw].action = "Pause or lower bid"

C1_Witness ==
    /\ Decided
    /\ \E kw \in DOMAIN suggested_changes :
            keyword_data[kw].clicks = 0 /\ suggested_changes[kw].action = "Skip"
    /\ \E kw \in DOMAIN suggested_changes :
            /\ keyword_data[kw].clicks > 0
            /\ keyword_data[kw].conversion_count = 0
            /\ suggested_changes[kw].action = "Pause or lower bid"

\* C2: once the decisions are computed, every keyword of the stats map
\* keyword_data has an entry in the decision map suggested_changes.
C2_EveryKeywordDecided ==
    Decided => DOMAIN suggested_changes = DOMAIN keyword_data

\* the stats of the first n records, as the loop holds them after n rounds
StatsAfter(n) == FoldRows(EmptyDict, SubSeq(sales_data, 1, n), gclid_map)

Bounded(st) == st.conversion_count <= st.clicks /\ st.total_sales <= st.cost

\* C3: every entry of keyword_data has conversion_count <= clicks and
\* total_sales <= cost, after each record the aggregation folds and after
\* _execute has added the zero entries of the enabled keywords.
C3_ConversionsBounded ==
    /\ \A kw \in DOMAIN keyword_data : Bounded(keyword_data[kw])
    /\ pc = "calculate" =>
            \A n \in 0..Len(sales_data) :
                \A kw \in DOMAIN StatsAfter(n) : Bounded(StatsAfter(n)[kw])

C3_Witness ==
    /\ pc = "apply_strategy"
    /\ \E kw \in DOMAIN keyword_data :
            /\ keyword_data[kw].conversion_count > 0
            /\ keyword_data[kw].conversion_count < keyword_data[kw].clicks
            /\ keyword_data[kw].total_sales > 0
            /\ keyword_data[kw].total_sales < keyword_data[kw].cost
    /\ \E kw \in DOMAIN keyword_data : keyword_data[kw] = ZeroStats

\* the records of sales_data that carry label k, by position
Labelled(k) == {i \in 1..Len(sales_data) : KeywordOf(sales_data[i], gclid_map) = k}

RECURSIVE SumCost(_)
SumCost(idx) ==
    IF idx = {} THEN 0
    ELSE LET i == CHOOSE j \in idx : TRUE
         IN  RowCost(sales_data[i]) + SumCost(idx \ {i})

Converting(idx) == {i \in idx : sales_data[i].conv \in {"registr", "transfer"}}

\* the counts and sums the claim gives label k
CountsMatch(k) ==
    /\ keyword_data[k].clicks = Cardinality(Labelled(k))
    /\ keyword_data[k].cost = SumCost(Labelled(k))
    /\ keyword_data[k].conversion_count = Cardinality(Converting(Labelled(k)))
    /\ keyword_data[k].total_sales = SumCost(Converting(Labelled(k)))

\* C5 as stated: each record is counted once under its label, and the
\* average cost per click is exactly cost / clicks.
C5_ExactAverage ==
    Aggregated =>
        /\ DOMAIN keyword_data = {KeywordOf(sales_data[i], gclid_map) : i \in 1..Len(sales_data)}
        /\ \A k \in DOMAIN keyword_data :
                /\ CountsMatch(k)
                /\ keyword_data[k].average_cpc * keyword_data[k].clicks
                        = 100 * keyword_data[k].cost

\* C5 amended: each record is counted once under its label, with the
\* counts and sums as stated, and the average cost per click is
\* cost / clicks rounded to two decimals: at most half a hundredth away
\* from the quotient.
C5_RoundedAverage ==
    Aggregated =>
        /\ DOMAIN keyword_data = {KeywordOf(sales_data[i], gclid_map) : i \in 1..Len(sales_data)}
        /\ \A k \in DOMAIN keyword_data :
                /\ CountsMatch(k)
                /\ keyword_data[k].clicks > 0
                /\ 2 * keyword_data[k].average_cpc * keyword_data[k].clicks
                        <= 200 * keyword_data[k].cost + keyword_data[k].clicks
                /\ 2 * keyword_data[k].average_cpc * keyword_data[k].clicks
                        >= 200 * keyword_data[k].cost - keyword_data[k].clicks

C5_Witness ==
    /\ Aggregated
    /\ \E k \in DOMAIN keyword_data :
            /\ keyword_data[k].clicks = 3
            /\ keyword_data[k].cost = 2
            /\ keyword_data[k].conversion_count = 1
            /\ keyword_data[k].total_sales = 2
            /\ keyword_data[k].average_cpc = 67

\* the identifier the claim attributes a record by: the first gclid value,
\* else the first gbraid value, else none
ClaimedIdentifier(kuda) ==
    IF ParseQs(kuda, "gclid") # <<>> THEN Some(ParseQs(kuda, "gclid")[1])
    ELSE IF ParseQs(kuda, "gbraid") # <<>> THEN Some(ParseQs(kuda, "gbraid")[1])
    ELSE None

ClaimedLabel(row) ==
    LET g == ClaimedIdentifier(row.kuda)
    IN  IF g = None THEN "unknown"
        ELSE IF g[1] \in DOMAIN gclid_map THEN gclid_map[g[1]]
        ELSE UnmappedLabel(g[1])

\* C6: every record is attributed through its first gclid value, else its
\* first gbraid value, and goes to "unknown" only when it has neither.
C6_GbraidFallback ==
    Aggregated =>
        \A k \in DOMAIN keyword_data \cup {ClaimedLabel(sales_data[i]) : i \in 1..Len(sales_data)} :
            /\ k \in DOMAIN keyword_data
            /\ keyword_data[k].clicks
                 = Cardinality({i \in 1..Len(sales_data) : ClaimedLabel(sales_data[i]) = k})

\* C7: with a required credential missing the run ends in the ValueError of
\* _initialize_google_ads_client and no later stage has started: nothing
\* fetched, resolved, aggregated, decided, written or applied.
C7_MissingCredentialAborts ==
    config # GoogleKeys =>
        /\ pc \in {"initialize_client", "raised"}
        /\ pc = "raised" =>
                raised = Some(Exception("_initialize_google_ads_client", "ValueError"))
        /\ stages = {}
        /\ sales_data = <<>> /\ gclid_map = EmptyDict /\ keyword_data = EmptyDict
        /\ suggested_changes = EmptyDict
        /\ report = None /\ returned = None

C7_Witness ==
    /\ config # GoogleKeys
    /\ pc = "raised"

\* C8: a run returns the result it computed and wrote to the report
\* whatever the value of TEST_MODE; the flag decides only whether the change
\* applier is invoked, and it is never invoked while TEST_MODE is true.
C8_SameResultInBothModes ==
    /\ test_mode => raised # Some(Exception("_execute", "AttributeError"))
    /\ (report # None /\ pc \in {"done", "raised"}) =>
            /\ returned = report
            /\ returned[1].suggested_changes = suggested_changes

\* C9: a failure of an identifier-resolution query never aborts the run.
C9_ResolverFailureTolerated ==
    ~(raised # None /\ raised[1].where = "_fetch_all_gclid_keyword_pairs")

\* C10: under "CPA" a keyword with clicks > 0 and conversion_count > 0 gets
\* "Decrease bid" exactly when total_sales / conversion_count > max_cpa, its
\* reason then carries the average CPA and max_cpa, and it never gets
\* "Increase bid" or "Review manually".
C10_CpaDecrease ==
    (Decided /\ strategy = "CPA") =>
        \A kw \in DOMAIN keyword_data :
            LET st == keyword_data[kw]
                decrease == /\ kw \in DOMAIN suggested_changes
                            /\ suggested_changes[kw].action = "Decrease bid"
            IN  (st.clicks > 0 /\ st.conversion_count > 0) =>
                    /\ decrease <=> (st.total_sales > max_cpa * st.conversion_count)
                    /\ decrease =>
                        suggested_changes[kw].reason.args
                            = <<RoundDiv(st.total_sales, st.conversion_count, 100), max_cpa>>
                    /\ kw \in DOMAIN suggested_changes =>
                        suggested_changes[kw].action
                            \notin {"Increase bid", "Review manually"}

C10_Witness ==
    /\ Decided
    /\ strategy = "CPA"
    /\ max_cpa = 1
    /\ \E kw \in DOMAIN suggested_changes :
            /\ suggested_changes[kw].action = "Decrease bid"
            /\ suggested_changes[kw].reason.args = <<200, 1>>
    /\ \E kw \in DOMAIN keyword_data :
            /\ keyword_data[kw].conversion_count > 0
            /\ keyword_data[kw].total_sales = keyword_data[kw].conversion_count
            /\ kw \notin DOMAIN suggested_changes

====
